---- MODULE Spec2Model ----
(***************************************************************************)
(* Model of QullamaggieLawsOfSwing.run (main.py): the allocation decision  *)
(* made from the last bar of a daily bar series and the latest values of   *)
(* SMA(10), SMA(20), SMA(50) and ATR(14).                                  *)
(*                                                                         *)
(* Numbers.  Prices and indicator values are integers counting eighths of  *)
(* a currency unit (800 is 100.0): every such value is an exact binary     *)
(* float, so subtraction, the comparisons and the rounding of ':.2f' are   *)
(* exact and are modelled by integer arithmetic.  An allocation fraction   *)
(* is a percentage (20 is 0.2).                                            *)
(*                                                                         *)
(* Indicators.  SMA and ATR are an external library; a series is therefore *)
(* represented by its length, its last bar and the latest indicator values *)
(* the library yields on it, restricted to what simple moving averages of  *)
(* non-negative closes can be (WellFormed).                                *)
(***************************************************************************)
EXTENDS Integers, Sequences, FiniteSets

VARIABLES
    data,    \* the argument of the last call of run
    result,  \* what the last call returned: an allocation, or a fault raised
    out,     \* the messages the last call passed to log, in order
    first,   \* history: the first call made, with its result and messages
    mixed    \* history: a call on another series followed the first call

vars == <<data, result, out, first, mixed>>

----------------------------------------------------------------------------
(* Program constants *)

MinBars == 50

PositionCap == 20

TolerancePct == 1

Instrument == "AAPL"

(* Longest series length enumerated *)
MaxBars == 51

----------------------------------------------------------------------------
(* Input domain *)

Closes == {0, 799, 800, 808}

Opens == {798, 808}

Atrs == {2, 16}

Sma10s == {0, 720, 800, 808}

Sma20s == {0, 800, 880}

Sma50s == {0, 800, 880}

Highs == {808, 820}

Lows == {0, 797}

Volumes == {0, 1000}

Lengths == {1, MinBars - 1} \cup (MinBars .. MaxBars)

Min(a, b) == IF a < b THEN a ELSE b

Max(a, b) == IF a > b THEN a ELSE b

\* High, low and volume of the last bar are enumerated together: two shapes.
Sampled(d) == (d.high = 820) = (d.low = 0) /\ (d.low = 0) = (d.volume = 0)

\* A bar has low <= open, close <= high.  Simple moving averages of
\* non-negative closes: the sum of the last 10 closes contains the last close
\* and is contained in the sum of the last 20, which is contained in the sum
\* of the last 50.
WellFormed(d) ==
    /\ d.low <= Min(d.open, d.close)
    /\ d.high >= Max(d.open, d.close)
    /\ d.close <= 10 * d.sma10
    /\ 10 * d.sma10 <= 20 * d.sma20
    /\ 20 * d.sma20 <= 50 * d.sma50

\* data without an "ohlcv" entry: data.get("ohlcv") is None
NoSeries ==
    [present |-> FALSE, nbars |-> 0, open |-> 0, high |-> 0, low |-> 0,
     close |-> 0, volume |-> 0, sma10 |-> 0, sma20 |-> 0, sma50 |-> 0,
     atr14 |-> 0]

\* data whose "ohlcv" entry is the empty list
EmptySeries == [NoSeries EXCEPT !.present = TRUE]

Series ==
    {d \in [present : {TRUE}, nbars : Lengths, open : Opens, high : Highs,
            low : Lows, close : Closes, volume : Volumes, sma10 : Sma10s,
            sma20 : Sma20s, sma50 : Sma50s, atr14 : Atrs] :
        WellFormed(d) /\ Sampled(d)}

Inputs == {NoSeries, EmptySeries} \cup Series

\* The series used where two calls are compared
ProbeInputs ==
    {NoSeries} \cup
    {d \in Series : /\ d.nbars \in {MinBars - 1, MinBars}
                    /\ d.volume = 0
                    /\ d.sma50 = 800
                    /\ d.sma20 \in {0, 800}
                    /\ d.sma10 \in {0, 720, 800}
                    /\ d.close \in {0, 800, 808}}

----------------------------------------------------------------------------
(* Values *)

Abs(x) == IF x < 0 THEN -x ELSE x

\* format(v, ".2f") of the float v/8: hundredths, ties to even
Fmt2(v) ==
    LET x == v * 100
        q == x \div 8
        r == x % 8
    IN  IF r < 4 THEN q
        ELSE IF r > 4 THEN q + 1
        ELSE IF q % 2 = 0 THEN q ELSE q + 1

Msg(text, args) == [text |-> text, args |-> args]

\* TargetAllocation({})
NoAllocation == [i \in {} |-> 0]

\* TargetAllocation({"AAPL": a})
AllocationDict(a) == [i \in {Instrument} |-> a]

----------------------------------------------------------------------------
(* run *)

\* the guard one bar short
InsufficientDataOffByOne(d) == ~d.present \/ d.nbars = 0 \/ d.nbars < MinBars - 1

InsufficientData(d) == ~d.present \/ d.nbars = 0 \/ d.nbars < MinBars

IndicatorLog(d) ==
    << Msg("10-day SMA, 20-day SMA, 50-day SMA",
           <<Fmt2(d.sma10), Fmt2(d.sma20), Fmt2(d.sma50)>>),
       Msg("ATR (14-day)", <<Fmt2(d.atr14)>>) >>

\* the signal kept from the previous call instead of being reset
EntrySignalInitCarried ==
    /\ result.kind = "allocation"
    /\ DOMAIN result.alloc = {Instrument}
    /\ result.alloc[Instrument] = PositionCap

EntrySignalInit == FALSE

\* orh = current_open
Breakout(d) == IF d.close > d.open THEN TRUE ELSE EntrySignalInit

\* the veto with >= in place of >
VolatilityVetoInclusive(d) == (d.close - d.open) >= d.atr14

VolatilityVeto(d) == (d.close - d.open) > d.atr14

VetoLog(d) ==
    IF VolatilityVeto(d)
    THEN << Msg("Avoiding entry: Price change exceeds ATR.", <<>>) >>
    ELSE <<>>

\* the veto logs but leaves the signal alone
SignalAfterVetoIgnored(d) == Breakout(d)

SignalAfterVeto(d) == IF VolatilityVeto(d) THEN FALSE ELSE Breakout(d)

\* the distances computed only inside 'if entry_signal'
DivisionFaultLazy(d) ==
    SignalAfterVeto(d) /\ (d.sma10 = 0 \/ d.sma20 = 0 \/ d.sma50 = 0)

\* abs(current_close - sma[-1]) / sma[-1] raises ZeroDivisionError
DivisionFault(d) == d.sma10 = 0 \/ d.sma20 = 0 \/ d.sma50 = 0

\* the tolerance test with <= in place of <
NearInclusive(c, s) ==
    IF s > 0 THEN 100 * Abs(c - s) <= TolerancePct * s
             ELSE 100 * Abs(c - s) >= TolerancePct * s

\* abs(c - s) / s < 0.01, for s # 0
Near(c, s) ==
    IF s > 0 THEN 100 * Abs(c - s) < TolerancePct * s
             ELSE 100 * Abs(c - s) > TolerancePct * s

\* the averages tested slowest first
SupportTierSlowFirst(d) ==
    IF Near(d.close, d.sma50) THEN "50"
    ELSE IF Near(d.close, d.sma20) THEN "20"
    ELSE IF Near(d.close, d.sma10) THEN "10"
    ELSE "none"

SupportTier(d) ==
    IF Near(d.close, d.sma10) THEN "10"
    ELSE IF Near(d.close, d.sma20) THEN "20"
    ELSE IF Near(d.close, d.sma50) THEN "50"
    ELSE "none"

TierText(t) ==
    CASE t = "10" -> "Entry setup: Price is near the 10-day SMA (strong support)."
      [] t = "20" -> "Entry setup: Price is near the 20-day SMA (moderate support)."
      [] t = "50" -> "Entry setup: Price is near the 50-day SMA (slower setup)."
      [] OTHER -> "Entry signal present but price is not close enough to a key MA."

SupportLog(d) ==
    IF SignalAfterVeto(d) THEN << Msg(TierText(SupportTier(d)), <<>>) >> ELSE <<>>

EntrySignal(d) == SignalAfterVeto(d) /\ SupportTier(d) # "none"

\* the whole account in place of the 20% cap
SizingFull(d) == IF EntrySignal(d) THEN 100 ELSE 0

Sizing(d) == IF EntrySignal(d) THEN PositionCap ELSE 0

\* the exit test with <= in place of <
ExitSignalInclusive(d) == d.close <= d.sma10

ExitSignal(d) == d.close < d.sma10

ExitLog(d) ==
    IF ExitSignal(d)
    THEN << Msg("Exit signal: Price closed below the 10-day SMA.", <<>>) >>
    ELSE <<>>

\* the exit rule logs but leaves the allocation alone
AllocationNoExit(d) == Sizing(d)

Allocation(d) == IF ExitSignal(d) THEN 0 ELSE Sizing(d)

StopLossLog(d) == << Msg("Stop-loss set at", <<Fmt2(d.low)>>) >>

Returned(d) ==
    IF InsufficientData(d) THEN [kind |-> "allocation", alloc |-> NoAllocation]
    ELSE IF DivisionFault(d) THEN [kind |-> "fault", alloc |-> NoAllocation]
    ELSE [kind |-> "allocation", alloc |-> AllocationDict(Allocation(d))]

Logged(d) ==
    IF InsufficientData(d) THEN <<>>
    ELSE IF DivisionFault(d) THEN IndicatorLog(d) \o VetoLog(d)
    ELSE IndicatorLog(d) \o VetoLog(d) \o SupportLog(d) \o ExitLog(d)
         \o StopLossLog(d)

NotCalled == [kind |-> "none", alloc |-> NoAllocation]

NoFirst == [set |-> FALSE, data |-> NoSeries, result |-> NotCalled, out |-> <<>>]

Init ==
    /\ data = NoSeries
    /\ result = NotCalled
    /\ out = <<>>
    /\ first = NoFirst
    /\ mixed = FALSE

\* One call of run(data); out holds the messages this call logged.
Run(d) ==
    /\ data' = d
    /\ result' = Returned(d)
    /\ out' = Logged(d)

\* Remember the first call and whether a call on another series followed it.
Track(d) ==
    /\ first' = IF first.set THEN first
                ELSE [set |-> TRUE, data |-> d, result |-> result', out |-> out']
    /\ mixed' = (first.set /\ (mixed \/ d # first.data))

Next == \E d \in Inputs : Run(d) /\ UNCHANGED <<first, mixed>>

Spec == Init /\ [][Next]_vars

NextHist == \E d \in ProbeInputs : Run(d) /\ Track(d)

SpecHist == Init /\ [][NextHist]_vars

----------------------------------------------------------------------------
(* Properties *)

Called == result.kind # "none"

\* The last call was made on a series of at least 50 bars.
LongCall == Called /\ data.present /\ data.nbars >= MinBars

\* The last call was made on a series of 0 to 49 bars.
ShortCall == Called /\ data.present /\ data.nbars < MinBars

ReturnedAlloc(a) == [kind |-> "allocation", alloc |-> AllocationDict(a)]

NonZeroSmas == data.sma10 # 0 /\ data.sma20 # 0 /\ data.sma50 # 0

\* |close - s| / s < 0.01 for a positive average s, on the last call's close
Within1Pct(s) == s > 0 /\ 100 * Abs(data.close - s) < s

\* |close - s| / s >= 0.01 for a positive average s
AtLeast1Pct(s) == s > 0 /\ 100 * Abs(data.close - s) >= s

CloseAboveOpen == data.close > data.open

MoveWithinAtr == (data.close - data.open) <= data.atr14

SignalAlive == CloseAboveOpen /\ MoveWithinAtr

ClassificationTexts == {TierText("10"), TierText("20"), TierText("50"), TierText("none")}

Classifications == SelectSeq(out, LAMBDA m : m.text \in ClassificationTexts)

\* C1 as stated: a call on a series of 0 to 49 bars returns exactly
\* {tracked instrument: 0.0}.
C1_ZeroEntryOnShortSeries == ShortCall => result = ReturnedAlloc(0)

\* C1 amended: a call on a series of 0 to 49 bars returns the empty allocation
\* mapping (no entry at all, not even for the tracked instrument) and logs
\* nothing.
C1_EmptyAllocationOnShortSeries ==
    ShortCall => /\ result = [kind |-> "allocation", alloc |-> NoAllocation]
                 /\ DOMAIN result.alloc = {}
                 /\ out = <<>>

C1_Witness ==
    /\ ShortCall
    /\ data.nbars = MinBars - 1
    /\ data.close = 800 /\ data.open = 798 /\ data.atr14 = 16 /\ data.sma10 = 800
    /\ DOMAIN result.alloc = {}

\* C2: on a series of at least 50 bars whose last close is below the latest
\* SMA10 the call returns allocation 0.0 for the tracked instrument, whatever
\* the breakout test, the volatility veto and the proximity filter say.
C2_ExitOverrideDominates ==
    (LongCall /\ data.close < data.sma10) => result = ReturnedAlloc(0)

\* close below SMA10 but within 1% of it, with the entry signal true
C2_Witness ==
    /\ LongCall
    /\ data.close < data.sma10
    /\ Within1Pct(data.sma10)
    /\ SignalAlive
    /\ result = ReturnedAlloc(0)

\* C3: close > open, (close - open) <= ATR14, close within 1% of SMA10 and
\* close >= SMA10 on the last bar of a series of at least 50 bars give exactly
\* {tracked instrument: 0.2}.
C3_EntryNearSma10 ==
    (LongCall /\ CloseAboveOpen /\ MoveWithinAtr /\ Within1Pct(data.sma10)
        /\ data.close >= data.sma10)
    => result = ReturnedAlloc(PositionCap)

\* the move equals ATR14 exactly
C3_Witness ==
    /\ LongCall
    /\ CloseAboveOpen
    /\ data.close - data.open = data.atr14
    /\ Within1Pct(data.sma10)
    /\ data.close >= data.sma10
    /\ result = ReturnedAlloc(PositionCap)

\* C4: (close - open) > ATR14 on the last bar of a series of at least 50 bars
\* gives allocation 0.0 for the tracked instrument, however near the close is
\* to SMA10, SMA20 or SMA50.
C4_VolatilityVeto ==
    (LongCall /\ (data.close - data.open) > data.atr14) => result = ReturnedAlloc(0)

\* vetoed although the close sits on SMA10 and would otherwise be an entry
C4_Witness ==
    /\ LongCall
    /\ (data.close - data.open) > data.atr14
    /\ Within1Pct(data.sma10)
    /\ data.close >= data.sma10
    /\ result = ReturnedAlloc(0)

\* C5: a last close at relative distance >= 0.01 from each of SMA10, SMA20
\* and SMA50 gives allocation 0.0 for the tracked instrument; a distance of
\* exactly 0.01 counts as not near.
C5_NotNearAnyAverage ==
    (LongCall /\ AtLeast1Pct(data.sma10) /\ AtLeast1Pct(data.sma20)
        /\ AtLeast1Pct(data.sma50))
    => result = ReturnedAlloc(0)

\* the signal is alive, the close is above SMA10 and exactly 1% from it
C5_Witness ==
    /\ LongCall
    /\ SignalAlive
    /\ data.close > data.sma10
    /\ 100 * Abs(data.close - data.sma10) = data.sma10
    /\ AtLeast1Pct(data.sma20) /\ AtLeast1Pct(data.sma50)
    /\ result = ReturnedAlloc(0)

C7_OneEntryZeroOrCap ==
    (LongCall /\ NonZeroSmas)
    => /\ result.kind = "allocation"
       /\ DOMAIN result.alloc = {Instrument}
       /\ result.alloc[Instrument] \in {0, PositionCap}

C7_Witness ==
    /\ LongCall /\ NonZeroSmas
    /\ DOMAIN result.alloc = {Instrument}
    /\ result.alloc[Instrument] = PositionCap

\* C8 as stated: when the signal is already false after the breakout test and
\* the volatility veto, the call completes with an allocation for the tracked
\* instrument even if an SMA is zero.
C8_NoFaultWhenSignalFalse ==
    (LongCall /\ ~SignalAlive)
    => (result.kind = "allocation" /\ DOMAIN result.alloc = {Instrument})

\* C8 amended: the relative distances are computed on every call on a series
\* of at least 50 bars, before the signal is consulted, so the call faults
\* (and returns no allocation) exactly when SMA10, SMA20 or SMA50 is zero,
\* also when the signal is already false; only the classification depends on
\* the signal: when it is false no classification message is logged.
C8_DistancesAlwaysComputed ==
    LongCall
    => /\ (result.kind = "fault") = ~NonZeroSmas
       /\ (result.kind = "allocation") = NonZeroSmas
       /\ (~SignalAlive => Classifications = <<>>)

\* the signal is false and SMA10 is zero: the call faults
C8_Witness ==
    /\ LongCall
    /\ ~SignalAlive
    /\ data.sma10 = 0
    /\ result.kind = "fault"
    /\ Len(out) = 2

\* C9: when the signal is true after the breakout test and the volatility veto
\* exactly one classification message is logged: the 10-day one iff the close
\* is near SMA10, the 20-day one iff it is not near SMA10 and near SMA20, the
\* 50-day one iff it is near neither and near SMA50, else 'not close enough';
\* with any of the three tiers the allocation is the same (0.2, or 0.0 when
\* the close is below SMA10); when the signal is false no classification
\* message is logged.
C9_OneClassificationInPriorityOrder ==
    LongCall
    => /\ SignalAlive =>
            /\ Len(Classifications) = 1
            /\ (Classifications[1].text = TierText("10")) = Within1Pct(data.sma10)
            /\ (Classifications[1].text = TierText("20"))
                 = (~Within1Pct(data.sma10) /\ Within1Pct(data.sma20))
            /\ (Classifications[1].text = TierText("50"))
                 = (/\ ~Within1Pct(data.sma10) /\ ~Within1Pct(data.sma20)
                    /\ Within1Pct(data.sma50))
            /\ (Classifications[1].text # TierText("none"))
                 => result = ReturnedAlloc(IF data.close < data.sma10
                                           THEN 0 ELSE PositionCap)
       /\ ~SignalAlive => Classifications = <<>>

\* the close is near SMA10 and near SMA20: the 10-day message wins
C9_Witness ==
    /\ LongCall /\ SignalAlive
    /\ Within1Pct(data.sma10) /\ Within1Pct(data.sma20)
    /\ Classifications = << Msg(TierText("10"), <<>>) >>

\* C10: with non-zero SMAs the allocation is 0.2 iff close > open,
\* (close - open) <= ATR14, the close is within 1% of at least one of SMA10,
\* SMA20, SMA50, and close >= SMA10; otherwise it is 0.0.  High, low and
\* volume of the last bar do not enter.
C10_AllocationIffFourConditions ==
    (LongCall /\ NonZeroSmas)
    => result = ReturnedAlloc(
           IF /\ CloseAboveOpen
              /\ MoveWithinAtr
              /\ (Within1Pct(data.sma10) \/ Within1Pct(data.sma20)
                    \/ Within1Pct(data.sma50))
              /\ data.close >= data.sma10
           THEN PositionCap ELSE 0)

\* 0.2 on a close equal to SMA10, the volume being zero
C10_Witness ==
    /\ LongCall /\ NonZeroSmas
    /\ data.close = data.sma10
    /\ data.volume = 0
    /\ result = ReturnedAlloc(PositionCap)

====
